---- MODULE Spec2Model ----
(***************************************************************************)
(* A model of wasm-run.js: the filestat re-layout shim of the wasi_unstable *)
(* compatibility layer, the fd_seek whence remap, the generic import        *)
(* tracer, the signature introspector (parseWasmInfo), the command-line    *)
(* argument coercion and the run's control flow (main).                     *)
(***************************************************************************)
EXTENDS Integers, Sequences, FiniteSets, TLC

VARIABLES
    pc,         \* position of the run inside main / of the component under study
    argv,       \* [invoke, trace, args]: the parsed command line (yargs), args being
                \* argv._.slice(1); given keeps the --invoke option as it was typed
    wasmInfo,   \* [wasiVersion, exportedFuncs]
    imports,    \* the import table: namespace -> [funcname -> callable]
    wasi,       \* "undefined" or "WASI": the capability object of line 301/306
    ctx,        \* [memory |-> "undefined" | "Memory"]: the scratch object of line 302
    mem,        \* the bytes of the instance's exported memory
    last,       \* the last import call seen from the module side, n counting the calls
    stable,     \* calls received by the underlying wasi.wasiImport functions
    tracelog,   \* the records emitted by log() from traceGeneric
    called,     \* calls received by exported functions of the instance
    parse,      \* the result of parseWasmInfo(binary), once computed
    module,     \* the module binary: [imports, funcs, exports]
    status      \* how the process stands (running, fatal, crash, returned, exit) and
                \* the position at which it stopped

vars == <<pc, argv, wasmInfo, imports, wasi, ctx, mem, last, stable, tracelog, called,
          parse, module, status>>

(***************************************************************************)
(* Bounds of the model.                                                    *)
(***************************************************************************)
MemSize == 80
MaxCalls == 2
MaxSeed == 3

(***************************************************************************)
(* JavaScript values.                                                      *)
(***************************************************************************)
Undefined == [t |-> "undefined"]
NaN == [t |-> "NaN"]
Num(n) == [t |-> "number", v |-> n]
Str(s) == [t |-> "string", v |-> s]
BigIntV(n) == [t |-> "bigint", v |-> n]
U64(lo, hi) == [t |-> "object", lo |-> Num(lo), hi |-> Num(hi)]

\* ToNumber of the values the codec meets: a plain object converts to NaN.
ToNumber(x) == IF x.t = "number" THEN x ELSE NaN

\* Property read x[key] of a value: only the {lo, hi} objects have properties.
GetProp(x, key) ==
    IF x.t = "object" THEN (IF key = "lo" THEN x.lo ELSE x.hi) ELSE Undefined

Max(a, b) == IF a >= b THEN a ELSE b
Min(a, b) == IF a <= b THEN a ELSE b

RECURSIVE Concat(_)
Concat(ss) == IF ss = <<>> THEN <<>> ELSE Head(ss) \o Concat(Tail(ss))

RECURSIVE Sum(_)
Sum(ns) == IF ns = <<>> THEN 0 ELSE Head(ns) + Sum(Tail(ns))

(***************************************************************************)
(* Typed arrays: a JavaScript array a[0..n-1] is the sequence a[1..n].     *)
(***************************************************************************)
\* TypedArray.prototype.slice(start, end) for start, end >= 0.
Slice(a, start, end) ==
    LET k == Min(start, Len(a))
        final == Min(end, Len(a))
        count == Max(final - k, 0)
    IN  [i \in 1..count |-> a[k + i]]

\* TypedArray.prototype.set(src, offset); the caller checks the range.
SetAt(a, src, offset) ==
    [i \in 1..Len(a) |->
        IF i - 1 >= offset /\ i - 1 < offset + Len(src) THEN src[i - offset] ELSE a[i]]

(***************************************************************************)
(* restructure: numbers, reserved spans and structs.                       *)
(***************************************************************************)
uint8 == [k |-> "uint8", n |-> 1]
uint32 == [k |-> "uint32le", n |-> 4]
uint64 == [k |-> "uint64", n |-> 8]
Reserved(n) == [k |-> "reserved", n |-> n]
Field(name, type) == [name |-> name, type |-> type]

\* Buffer.prototype.writeUInt8 / writeUInt32LE: value = +value, NaN is stored as 0.
writeUInt(x, width) ==
    LET v == ToNumber(x)
    IN  IF v.t = "number"
        THEN [i \in 1..width |-> (v.v \div (256 ^ (i - 1))) % 256]
        ELSE [i \in 1..width |-> 0]

\* Buffer.prototype.readUInt8 / readUInt32LE at byte offset off.
readUInt(bytes, off, width) ==
    Num(Sum([i \in 1..width |-> bytes[off + i] * (256 ^ (i - 1))]))

EncodeField(type, x) ==
    CASE type.k = "uint8" -> writeUInt(x, 1)
      [] type.k = "uint32le" -> writeUInt(x, 4)
      [] type.k = "uint64" -> writeUInt(GetProp(x, "lo"), 4) \o writeUInt(GetProp(x, "hi"), 4)
      [] type.k = "reserved" -> [i \in 1..type.n |-> 0]

DecodeField(type, bytes, off) ==
    CASE type.k = "uint8" -> readUInt(bytes, off, 1)
      [] type.k = "uint32le" -> readUInt(bytes, off, 4)
      [] type.k = "uint64" ->
            [t |-> "object", lo |-> readUInt(bytes, off, 4), hi |-> readUInt(bytes, off + 4, 4)]
      [] type.k = "reserved" -> Undefined

StructSize(T) == Sum([i \in 1..Len(T) |-> T[i].type.n])
FieldOffset(T, i) == Sum([j \in 1..(i - 1) |-> T[j].type.n])
FieldNames(T) == {T[i].name : i \in {j \in 1..Len(T) : T[j].type.k # "reserved"}}
FieldIndex(T, name) == CHOOSE i \in 1..Len(T) : T[i].name = name

wasi_snapshot_preview1_filestat_t ==
    << Field("dev", uint64), Field("ino", uint64), Field("ftype", uint8),
       Field("pad0", Reserved(7)), Field("nlink", uint64), Field("size", uint64),
       Field("atim", uint64), Field("mtim", uint64), Field("ctim", uint64) >>

wasi_unstable_filestat_t ==
    << Field("dev", uint64), Field("ino", uint64), Field("ftype", uint8),
       Field("pad0", Reserved(3)), Field("nlink", uint32), Field("size", uint64),
       Field("atim", uint64), Field("mtim", uint64), Field("ctim", uint64) >>

\* decodeStruct(T, buff): the caller has checked buff.length = T.size().
decodeStruct(T, buff) ==
    [name \in FieldNames(T) |->
        DecodeField(T[FieldIndex(T, name)].type, buff, FieldOffset(T, FieldIndex(T, name)))]

\* encodeStruct(T, data): a reserved field has no entry in data.
encodeStruct(T, data) ==
    Concat([i \in 1..Len(T) |->
        EncodeField(T[i].type,
                    IF T[i].name \in DOMAIN data THEN data[T[i].name] ELSE Undefined)])

(***************************************************************************)
(* The capability library (node:wasi), as seen at its call sites.  A native *)
(* function returns an errno; the two status queries write a 64-byte        *)
(* stable-layout record at buf when they succeed and the span is in range.  *)
(* What fd_seek and fd_write store through their result pointers is not     *)
(* followed.                                                                *)
(***************************************************************************)
WasiFuncs == {"fd_seek", "fd_filestat_get", "path_filestat_get", "fd_write"}
FilestatFuncs == {"fd_filestat_get", "path_filestat_get"}

\* The status records the host may report, one per seed.
StatRecord(k) ==
    [dev |-> U64(k, 0), ino |-> U64(1000 + k, k), ftype |-> Num(k % 8),
     nlink |-> U64(k + 1, k - 1), size |-> U64(4096 * k, 0),
     atim |-> U64(16909060 + k, 1), mtim |-> U64(33818120 + k, 1),
     ctim |-> U64(84281096 + k, 2)]

\* What the host answers to one native call: an errno and, for a status query, a record.
HostChoices == {[res |-> e, seed |-> k] : e \in {0, 8}, k \in 1..MaxSeed}

\* The stable call's write: each field at its stable offset, the padding untouched.
WriteStable(m, buf, rec) ==
    LET T == wasi_snapshot_preview1_filestat_t
        put(a, i) == SetAt(a, EncodeField(T[i].type, rec[T[i].name]), buf + FieldOffset(T, i))
    IN  put(put(put(put(put(put(put(put(m, 1), 2), 3), 5), 6), 7), 8), 9)

\* wasi.wasiImport[fn](...args): the outcome of one native call.
Native(fn, args, m, ch) ==
    LET buf == args[Len(args)]
        inRange == buf + 64 <= Len(m)
        res == IF fn \in FilestatFuncs /\ ~inRange THEN 61 ELSE ch.res
    IN  [threw |-> "none", res |-> res,
         mem |-> IF fn \in FilestatFuncs /\ res = 0
                 THEN WriteStable(m, buf, StatRecord(ch.seed)) ELSE m,
         stable |-> <<[fn |-> fn, args |-> args]>>, log |-> <<>>]

Thrown(e, m, st) == [threw |-> e, res |-> 0, mem |-> m, stable |-> st, log |-> <<>>]

(***************************************************************************)
(* The wasi_unstable compatibility layer (lines 352-386).                  *)
(***************************************************************************)
\* The switch without its default branch: an unknown whence is passed on as it is.
WhenceMap_NoDefault(whence) ==
    CASE whence = 0 -> 1
      [] whence = 1 -> 2
      [] whence = 2 -> 0
      [] OTHER -> whence

\* The switch of imports.wasi_unstable.fd_seek; -1 stands for the default branch.
WhenceMap(whence) ==
    CASE whence = 0 -> 1
      [] whence = 1 -> 2
      [] whence = 2 -> 0
      [] OTHER -> -1

fd_seek(args, m, ch) ==
    LET whence == WhenceMap(args[3])
    IN  IF whence = -1 THEN Thrown("Invalid whence", m, <<>>)
        ELSE Native("fd_seek", <<args[1], args[2], whence, args[4]>>, m, ch)

\* const backup = mem.slice(buf+56, buf+(64-56));
Backup(m, buf) == Slice(m, buf + 56, buf + (64 - 56))

\* The body shared by fd_filestat_get and path_filestat_get; buf is the last argument.
filestat_get(fn, args, c, m, ch) ==
    LET buf == args[Len(args)] IN
    IF c.memory = "undefined" THEN Thrown("TypeError", m, <<>>)
    ELSE
      LET backup == Backup(m, buf)
          r == Native(fn, args, m, ch)
          span == Slice(r.mem, buf, buf + 64)
      IN  IF Len(span) # StructSize(wasi_snapshot_preview1_filestat_t)
          THEN Thrown("AssertionError", r.mem, r.stable)
          ELSE
            LET modified == encodeStruct(wasi_unstable_filestat_t,
                                decodeStruct(wasi_snapshot_preview1_filestat_t, span))
                m2 == SetAt(r.mem, modified, buf)
                m3 == SetAt(m2, backup, buf + 56)
            IN  [r EXCEPT !.mem = m3]

fd_filestat_get(args, c, m, ch) == filestat_get("fd_filestat_get", args, c, m, ch)

path_filestat_get(args, c, m, ch) == filestat_get("path_filestat_get", args, c, m, ch)

(***************************************************************************)
(* Callables of the import table and the tracer (lines 392-415).           *)
(***************************************************************************)
NativeFn(fn) == [kind |-> "native", fn |-> fn]
ShimFn(fn) == [kind |-> "shim", fn |-> fn]
TracedFn(name, f) == [kind |-> "traced", name |-> name, f |-> f]

\* A call of a callable that is not a tracer wrapper.
ApplyPlain(f, args, c, m, ch) ==
    IF f.kind = "native" THEN Native(f.fn, args, m, ch)
    ELSE CASE f.fn = "fd_seek" -> fd_seek(args, m, ch)
           [] f.fn = "fd_filestat_get" -> fd_filestat_get(args, c, m, ch)
           [] f.fn = "path_filestat_get" -> path_filestat_get(args, c, m, ch)

\* A tracer whose catch block logs the failure and does not throw it again.
traceGeneric_Swallow(name, f, args, c, m, ch) ==
    LET r == ApplyPlain(f, args, c, m, ch)
    IN  IF r.threw = "none"
        THEN [r EXCEPT !.log = <<[name |-> name, args |-> args, ok |-> TRUE, out |-> Num(r.res)]>>]
        ELSE [r EXCEPT !.threw = "none",
                       !.log = <<[name |-> name, args |-> args, ok |-> FALSE, out |-> Str(r.threw)]>>]

\* The function traceGeneric(name, f) returns, called with args.
traceGeneric(name, f, args, c, m, ch) ==
    LET r == ApplyPlain(f, args, c, m, ch)
    IN  IF r.threw = "none"
        THEN [r EXCEPT !.log = <<[name |-> name, args |-> args, ok |-> TRUE, out |-> Num(r.res)]>>]
        ELSE [r EXCEPT !.log = <<[name |-> name, args |-> args, ok |-> FALSE, out |-> Str(r.threw)]>>]

Apply(f, args, c, m, ch) ==
    IF f.kind = "traced" THEN traceGeneric(f.name, f.f, args, c, m, ch)
    ELSE ApplyPlain(f, args, c, m, ch)

(***************************************************************************)
(* Strings are sequences of one-character strings.  The three parsers of    *)
(* lines 440-443 over the characters the raw arguments are drawn from.      *)
(***************************************************************************)
DigitOf ==
    [c \in {"0", "1", "2", "3", "4", "5", "6", "7", "8", "9", "a", "b", "c", "d", "e", "f"} |->
        CASE c = "0" -> 0 [] c = "1" -> 1 [] c = "2" -> 2 [] c = "3" -> 3 [] c = "4" -> 4
          [] c = "5" -> 5 [] c = "6" -> 6 [] c = "7" -> 7 [] c = "8" -> 8 [] c = "9" -> 9
          [] c = "a" -> 10 [] c = "b" -> 11 [] c = "c" -> 12 [] c = "d" -> 13
          [] c = "e" -> 14 [] c = "f" -> 15]

IsDigit(c, radix) == c \in DOMAIN DigitOf /\ DigitOf[c] < radix

\* ToString of the values an argument slot holds before coercion.
StringOf(x) ==
    IF x.t = "string" THEN x.v ELSE <<"u", "n", "d", "e", "f", "i", "n", "e", "d">>

RECURSIVE StripLeft(_)
StripLeft(s) == IF s # <<>> /\ Head(s) = " " THEN StripLeft(Tail(s)) ELSE s

RECURSIVE StripRight(_)
StripRight(s) ==
    IF s # <<>> /\ s[Len(s)] = " " THEN StripRight(SubSeq(s, 1, Len(s) - 1)) ELSE s

\* The longest prefix of s made of digits of the radix.
RECURSIVE DigitPrefix(_, _)
DigitPrefix(s, radix) ==
    IF s # <<>> /\ IsDigit(Head(s), radix)
    THEN <<Head(s)>> \o DigitPrefix(Tail(s), radix) ELSE <<>>

RECURSIVE DigitsValue(_, _)
DigitsValue(ds, radix) ==
    IF ds = <<>> THEN 0
    ELSE DigitsValue(SubSeq(ds, 1, Len(ds) - 1), radix) * radix + DigitOf[ds[Len(ds)]]

HasSign(s) == s # <<>> /\ Head(s) \in {"-", "+"}
HasHexPrefix(s) == Len(s) >= 2 /\ s[1] = "0" /\ s[2] \in {"x", "X"}

\* parseInt(x) with no radix argument.
parseInt(x) ==
    LET s1 == StripLeft(StringOf(x))
        neg == s1 # <<>> /\ Head(s1) = "-"
        s2 == IF HasSign(s1) THEN Tail(s1) ELSE s1
        radix == IF HasHexPrefix(s2) THEN 16 ELSE 10
        s3 == IF HasHexPrefix(s2) THEN SubSeq(s2, 3, Len(s2)) ELSE s2
        ds == DigitPrefix(s3, radix)
    IN  IF ds = <<>> THEN NaN
        ELSE Num((IF neg THEN -1 ELSE 1) * DigitsValue(ds, radix))

\* BigInt(x): the whole trimmed string must be an integer literal.
BigInt(x) ==
    IF x.t # "string" THEN [t |-> "throw", v |-> "TypeError"]
    ELSE
      LET s1 == StripRight(StripLeft(x.v))
          neg == s1 # <<>> /\ Head(s1) = "-"
          hex == HasHexPrefix(s1)
          s2 == IF hex THEN SubSeq(s1, 3, Len(s1)) ELSE IF HasSign(s1) THEN Tail(s1) ELSE s1
          radix == IF hex THEN 16 ELSE 10
          ds == DigitPrefix(s2, radix)
      IN  IF s1 = <<>> THEN BigIntV(0)
          ELSE IF ds = <<>> \/ ds # s2 THEN [t |-> "throw", v |-> "SyntaxError"]
          ELSE BigIntV((IF neg THEN -1 ELSE 1) * DigitsValue(ds, radix))

\* parseFloat(x): sign, digits, and a fraction; the value keeps its fraction digits.
parseFloat(x) ==
    LET s1 == StripLeft(StringOf(x))
        neg == s1 # <<>> /\ Head(s1) = "-"
        s2 == IF HasSign(s1) THEN Tail(s1) ELSE s1
        int == DigitPrefix(s2, 10)
        s3 == SubSeq(s2, Len(int) + 1, Len(s2))
        frac == IF s3 # <<>> /\ Head(s3) = "." THEN DigitPrefix(Tail(s3), 10) ELSE <<>>
    IN  IF int = <<>> /\ frac = <<>> THEN NaN
        ELSE [t |-> "number", v |-> (IF neg THEN -1 ELSE 1) * DigitsValue(int, 10),
              neg |-> neg, frac |-> frac]

\* One iteration of the switch of lines 439-444.
CoerceArg(type, x) ==
    CASE type = "i32" -> parseInt(x)
      [] type = "i64" -> BigInt(x)
      [] type \in {"f32", "f64"} -> parseFloat(x)
      [] OTHER -> x

\* The loop of lines 438-445 over args = argv._.slice(1): args[i] is assigned for
\* every parameter, which extends the array when it is shorter.
Coerce(params, args) ==
    [i \in 1..Max(Len(params), Len(args)) |->
        LET x == IF i <= Len(args) THEN args[i] ELSE Undefined
        IN  IF i <= Len(params) THEN CoerceArg(params[i], x) ELSE x]

CoerceThrows(params, args) ==
    \E i \in 1..Len(params) : Coerce(params, args)[i].t = "throw"

(***************************************************************************)
(* parseWasmInfo (lines 189-239).  A signature object is identified by the  *)
(* position of its function: funcsByName maps a name to that reference.     *)
(***************************************************************************)
Put(map, key, val) == [k \in DOMAIN map \cup {key} |-> IF k = key THEN val ELSE map[k]]

EmptyMap == [k \in {} |-> 0]

\* The loop of lines 217-225 up to function n.
RECURSIVE NamesOfFuncs(_, _)
NamesOfFuncs(funcs, n) ==
    IF n = 0 THEN EmptyMap ELSE Put(NamesOfFuncs(funcs, n - 1), funcs[n].name, n)

\* Lines 230-233 for one export entry.
AliasExport(byName, exp) ==
    IF exp.kind = "function"
    THEN Put(byName, exp.name, IF exp.value \in DOMAIN byName THEN byName[exp.value] ELSE 0)
    ELSE byName

\* The loop of lines 227-234 up to export n.
RECURSIVE NamesOfExports(_, _, _)
NamesOfExports(byName, exports, n) ==
    IF n = 0 THEN byName
    ELSE AliasExport(NamesOfExports(byName, exports, n - 1), exports[n])

parseWasmInfo(binary) ==
    [funcsByIndex |-> [i \in 1..Len(binary.funcs) |->
                          [index |-> i - 1, params |-> binary.funcs[i].params,
                           results |-> binary.funcs[i].results]],
     funcsByName |-> NamesOfExports(NamesOfFuncs(binary.funcs, Len(binary.funcs)),
                                    binary.exports, Len(binary.exports))]

(***************************************************************************)
(* main (lines 246-459).                                                   *)
(***************************************************************************)
Range(q) == {q[i] : i \in 1..Len(q)}
SeqsUpTo(S, n) == UNION {[1..k -> S] : k \in 0..n}

RECURSIVE SelectSeq2(_, _)
SelectSeq2(q, keep) ==
    IF q = <<>> THEN <<>>
    ELSE (IF Head(q) \in keep THEN <<Head(q)>> ELSE <<>>) \o SelectSeq2(Tail(q), keep)

\* i.module.startsWith("wasi_"), over the namespaces a module of the model declares.
Namespaces == {"env", "wasi_unstable", "wasi_snapshot_preview1", "wasi_ephemeral"}
StartsWithWasi(ns) == ns \in {"wasi_unstable", "wasi_snapshot_preview1", "wasi_ephemeral"}

\* The loop of lines 285-289: every match assigns wasmInfo.wasiVersion.
RECURSIVE WasiVersionOf(_)
WasiVersionOf(imps) ==
    IF imps = <<>> THEN Undefined
    ELSE IF StartsWithWasi(imps[Len(imps)]) THEN Str(imps[Len(imps)])
    ELSE WasiVersionOf(SubSeq(imps, 1, Len(imps) - 1))

\* WebAssembly.Module.exports(module).filter(x => x.kind == 'function').map(x => x.name)
ExportedFuncs(m) ==
    LET fs == SelectSeq2(m.exports, {e \in Range(m.exports) : e.kind = "function"})
    IN  [i \in 1..Len(fs) |-> fs[i].name]

NativeTable == [fn \in WasiFuncs |-> NativeFn(fn)]

\* Object.assign({}, wasi.wasiImport) with the three functions of lines 352-386 replaced.
UnstableTable ==
    [fn \in WasiFuncs |->
        IF fn \in {"fd_seek", "fd_filestat_get", "path_filestat_get"}
        THEN ShimFn(fn) ELSE NativeFn(fn)]

\* The else branch of line 387 is taken for every other detected version.
Recognized(version) ==
    version.t = "string" /\ version.v \in {"wasi_snapshot_preview1", "wasi_unstable"}

\* Lines 297-386: the table for no version or a recognized one.
ImportsFor(version) ==
    IF version.t = "undefined" THEN EmptyMap
    ELSE IF version.v = "wasi_snapshot_preview1"
    THEN Put(EmptyMap, "wasi_snapshot_preview1", NativeTable)
    ELSE Put(EmptyMap, "wasi_unstable", UnstableTable)

\* Lines 406-414: newimports.
TracedImports(imp) ==
    [ns \in DOMAIN imp |-> [fn \in DOMAIN imp[ns] |-> TracedFn(<<ns, fn>>, imp[ns][fn])]]

Running == [kind |-> "running", msg |-> "", at |-> ""]

\* fatal(msg): the message is logged and the process exits with status 1.
fatal(msg) ==
    /\ status' = [kind |-> "fatal", msg |-> msg, at |-> pc]
    /\ pc' = "halt"

\* An exception that nothing catches: the promise of main is rejected.
Crash(e) ==
    /\ status' = [kind |-> "crash", msg |-> e, at |-> pc]
    /\ pc' = "halt"

callVars == <<mem, last, stable, tracelog>>

\* Lines 284-291.
Analyze ==
    /\ pc = "analyze"
    /\ wasmInfo' = [wasiVersion |-> WasiVersionOf(module.imports),
                    exportedFuncs |-> ExportedFuncs(module)]
    /\ pc' = "prepare"
    /\ UNCHANGED <<argv, imports, wasi, ctx, callVars, called, parse, module, status>>

\* Lines 297-390.
PrepareImports ==
    /\ pc = "prepare"
    /\ wasi' = IF wasmInfo.wasiVersion.t = "undefined" THEN "undefined" ELSE "WASI"
    /\ IF wasmInfo.wasiVersion.t # "undefined" /\ ~Recognized(wasmInfo.wasiVersion)
       THEN /\ fatal("Unsupported WASI version")
            /\ UNCHANGED imports
       ELSE /\ imports' = ImportsFor(wasmInfo.wasiVersion)
            /\ pc' = "trace"
            /\ UNCHANGED status
    /\ UNCHANGED <<argv, wasmInfo, ctx, callVars, called, parse, module>>

\* Lines 392-415.
Trace ==
    /\ pc = "trace"
    /\ imports' = IF argv.trace THEN TracedImports(imports) ELSE imports
    /\ pc' = "instantiate"
    /\ UNCHANGED <<argv, wasmInfo, wasi, ctx, callVars, called, parse, module, status>>

\* Line 421: instantiation links every declared namespace against the table, then
\* runs the module's start function, if any.
Instantiate ==
    /\ pc = "instantiate"
    /\ IF Range(module.imports) \subseteq DOMAIN imports
       THEN pc' = "start_fn" /\ UNCHANGED status
       ELSE Crash("LinkError")
    /\ UNCHANGED <<argv, wasmInfo, imports, wasi, ctx, callVars, called, parse, module>>

\* Lines 424-458, up to the call of the exported function or of wasi.start.
Execute ==
    /\ pc = "execute"
    /\ LET invoke == IF /\ argv.invoke.t = "undefined"
                        /\ wasmInfo.wasiVersion.t = "undefined"
                        /\ Len(wasmInfo.exportedFuncs) = 1
                     THEN Str(wasmInfo.exportedFuncs[1]) ELSE argv.invoke
           wasmInfo2 == parseWasmInfo(module)
           ref == wasmInfo2.funcsByName[invoke.v]
           funcInfo == wasmInfo2.funcsByIndex[ref]
           args == Coerce(funcInfo.params, argv.args)
       IN  /\ argv' = [argv EXCEPT !.invoke = invoke]
           /\ IF invoke.t # "undefined"
              THEN IF invoke.v \notin Range(wasmInfo.exportedFuncs)
                   THEN /\ fatal("Function not found")
                        /\ UNCHANGED <<ctx, called, parse>>
                   ELSE /\ parse' = wasmInfo2
                        /\ UNCHANGED ctx
                        /\ IF ref = 0 THEN Crash("TypeError") /\ UNCHANGED called
                           ELSE IF CoerceThrows(funcInfo.params, argv.args)
                           THEN /\ Crash(CHOOSE e \in {"SyntaxError", "TypeError"} :
                                           \E i \in 1..Len(funcInfo.params) :
                                              args[i] = [t |-> "throw", v |-> e])
                                /\ UNCHANGED called
                           ELSE /\ called' = Append(called, [name |-> invoke.v, args |-> args])
                                /\ pc' = "in_func"
                                /\ UNCHANGED status
              ELSE /\ ctx' = [ctx EXCEPT !.memory = "Memory"]
                   /\ UNCHANGED <<called, parse>>
                   /\ IF wasi = "undefined" THEN Crash("TypeError")
                      ELSE pc' = "in_start" /\ UNCHANGED status
    /\ UNCHANGED <<wasmInfo, imports, wasi, callVars, module>>

\* Module code calls imports[ns][fn](...args) while it runs.
ModuleCall(ns, fn, args, ch) ==
    /\ pc \in {"start_fn", "in_func", "in_start"}
    /\ Len(stable) < MaxCalls
    /\ ns \in DOMAIN imports
    /\ fn \in DOMAIN imports[ns]
    /\ \E r \in {Apply(imports[ns][fn], args, ctx, mem, ch)} :
           /\ mem' = r.mem
           /\ stable' = stable \o r.stable
           /\ tracelog' = tracelog \o r.log
           /\ last' = [ns |-> ns, fn |-> fn, args |-> args, pre |-> mem, ch |-> ch,
                       threw |-> r.threw, res |-> r.res, made |-> r.stable, at |-> pc,
                       n |-> last.n + 1]
           /\ IF r.threw = "none" THEN UNCHANGED <<pc, status>> ELSE Crash(r.threw)
    /\ UNCHANGED <<argv, wasmInfo, imports, wasi, ctx, called, parse, module>>

\* The start function returns: instantiate resolves.
StartFnReturns ==
    /\ pc = "start_fn"
    /\ pc' = "execute"
    /\ UNCHANGED <<argv, wasmInfo, imports, wasi, ctx, callVars, called, parse, module, status>>

\* Line 450: the invoked function returns and its result is logged.
FuncReturns ==
    /\ pc = "in_func"
    /\ pc' = "halt"
    /\ status' = [kind |-> "returned", msg |-> "", at |-> pc]
    /\ UNCHANGED <<argv, wasmInfo, imports, wasi, ctx, callVars, called, parse, module>>

\* Lines 453-457: wasi.start returns and the process exits with its code.
StartExits ==
    /\ pc = "in_start"
    /\ pc' = "halt"
    /\ status' = [kind |-> "exit", msg |-> "", at |-> pc]
    /\ UNCHANGED <<argv, wasmInfo, imports, wasi, ctx, callVars, called, parse, module>>

(***************************************************************************)
(* Inputs and initial states.                                              *)
(***************************************************************************)
MaxImports == 2
MaxParams == 2
MaxArgs == 3
MaxExports == 2
MaxWhence == 3

RawStrings ==
    { Str(<<"2", "1">>), Str(<<"-", "5">>), Str(<<"a", "b", "c">>), Str(<<"3", ".", "2", "5">>) }
ValueTypes == {"i32", "i64", "f32", "f64", "funcref"}

MemoryExport == [name |-> "memory", kind |-> "memory", value |-> "0"]
FuncExport(name, value) == [name |-> name, kind |-> "function", value |-> value]

\* The memory before the module runs: bytes that tell their place.
InitMems == { [i \in 1..MemSize |-> 85], [i \in 1..MemSize |-> 1 + (i % 100)] }

NoCall == [fn |-> "none", n |-> 0]
NoParse == [funcsByIndex |-> <<>>, funcsByName |-> EmptyMap]

\* The state main starts from, for a module and a command line.
Fresh(m, a, bytes) ==
    /\ pc = "analyze"
    /\ module = m
    /\ argv = a
    /\ wasmInfo = [wasiVersion |-> Undefined, exportedFuncs |-> <<>>]
    /\ imports = EmptyMap
    /\ wasi = "undefined"
    /\ ctx = [memory |-> "undefined"]
    /\ mem = bytes
    /\ last = NoCall
    /\ stable = <<>>
    /\ tracelog = <<>>
    /\ called = <<>>
    /\ parse = NoParse
    /\ status = Running

\* The state main has reached at line 453, inside wasi.start, for a capability module.
InStart(version, trace, bytes) ==
    /\ pc = "in_start"
    /\ module = [imports |-> <<version>>,
                 funcs |-> <<[name |-> "_start", params |-> <<>>, results |-> <<>>]>>,
                 exports |-> <<FuncExport("_start", "_start"), MemoryExport>>]
    /\ argv = [invoke |-> Undefined, given |-> Undefined, trace |-> trace, args |-> <<>>]
    /\ wasmInfo = [wasiVersion |-> Str(version), exportedFuncs |-> <<"_start">>]
    /\ imports = IF trace THEN TracedImports(ImportsFor(Str(version)))
                 ELSE ImportsFor(Str(version))
    /\ wasi = "WASI"
    /\ ctx = [memory |-> "Memory"]
    /\ mem = bytes
    /\ last = NoCall
    /\ stable = <<>>
    /\ tracelog = <<>>
    /\ called = <<>>
    /\ parse = NoParse
    /\ status = Running

(***************************************************************************)
(* SpecShim: a wasi_unstable module, inside wasi.start, queries file status.*)
(***************************************************************************)
ShimBufs == {0, 8, 24}

InitShim == \E bytes \in InitMems : InStart("wasi_unstable", FALSE, bytes)

CallFdFilestatGet ==
    \E buf \in ShimBufs, ch \in HostChoices :
        ModuleCall("wasi_unstable", "fd_filestat_get", <<3, buf>>, ch)

CallPathFilestatGet ==
    \E buf \in ShimBufs, ch \in HostChoices :
        ModuleCall("wasi_unstable", "path_filestat_get", <<3, 0, 64, 1, buf>>, ch)

NextShim == CallFdFilestatGet \/ CallPathFilestatGet \/ StartExits

SpecShim == InitShim /\ [][NextShim]_vars

(***************************************************************************)
(* SpecImports: a capability module of either version, traced or not, calls *)
(* its imports from inside wasi.start.                                      *)
(***************************************************************************)
SeekChoices == {ch \in HostChoices : ch.seed = 1}

InitImports ==
    \E version \in {"wasi_unstable", "wasi_snapshot_preview1"}, trace \in BOOLEAN :
        InStart(version, trace, [i \in 1..MemSize |-> 1 + (i % 100)])

CallFdSeek ==
    \E offset \in {0, 5}, whence \in 0..MaxWhence, ch \in SeekChoices :
        ModuleCall(wasmInfo.wasiVersion.v, "fd_seek", <<3, offset, whence, 16>>, ch)

CallFdWrite ==
    \E ch \in SeekChoices :
        ModuleCall(wasmInfo.wasiVersion.v, "fd_write", <<1, 0, 1, 8>>, ch)

CallFilestat ==
    \E ch \in SeekChoices :
        ModuleCall(wasmInfo.wasiVersion.v, "fd_filestat_get", <<3, 8>>, ch)

NextImports == CallFdSeek \/ CallFdWrite \/ CallFilestat \/ StartExits

SpecImports == InitImports /\ [][NextImports]_vars

(***************************************************************************)
(* Properties of the status shim, under SpecShim.                          *)
(***************************************************************************)
\* A status query of the wasi_unstable table has returned to the module.
FilestatReturned ==
    /\ last.fn \in FilestatFuncs
    /\ last.ns = "wasi_unstable"
    /\ last.threw = "none"

LastBuf == last.args[Len(last.args)]

\* C1: after fd_filestat_get or path_filestat_get of the unstable table returns, every
\* byte of memory outside [buf, buf+56), the 8 bytes at [buf+56, buf+64) among them,
\* has the value it had before the call.
C1_BytesOutsideRecordKept ==
    FilestatReturned =>
        \A i \in 0..(Len(mem) - 1) :
            (i < LastBuf \/ i >= LastBuf + 56) => mem[i + 1] = last.pre[i + 1]

\* The stable call has written a record at buf and the wrapper has returned.
StableRecordWritten ==
    /\ FilestatReturned
    /\ last.res = 0

\* C2: when the stable call has written a 64-byte record at buf, the 56 bytes at buf
\* decode under the unstable layout to the same dev, ino, file type, size, atime, mtime
\* and ctime, the 32-bit link count is the low 32 bits of the stable 64-bit link count,
\* and the wrapper returns the stable call's result code.
C2_RelayoutKeepsFields ==
    StableRecordWritten =>
        LET rec == StatRecord(last.ch.seed)
            got == decodeStruct(wasi_unstable_filestat_t, Slice(mem, LastBuf, LastBuf + 56))
        IN  /\ \A f \in {"dev", "ino", "ftype", "size", "atim", "mtim", "ctim"} : got[f] = rec[f]
            /\ got["nlink"] = rec["nlink"].lo
            /\ last.res = last.ch.res

(***************************************************************************)
(* Properties of the whence remap and of the tracer, under SpecImports.    *)
(***************************************************************************)
UnstableSeek == last.fn = "fd_seek" /\ last.ns = "wasi_unstable"

\* C7: the unstable fd_seek maps whence 0 to 1, 1 to 2 and 2 to 0, calls the stable
\* fd_seek exactly once with fd, offset and result as given and returns its result;
\* for any other whence it fails with "Invalid whence" and the stable fd_seek is not
\* called.
C7_WhenceRemap ==
    UnstableSeek =>
        LET fd == last.args[1]
            offset == last.args[2]
            whence == last.args[3]
            result == last.args[4]
        IN  IF whence \in {0, 1, 2}
            THEN /\ last.made = << [fn |-> "fd_seek",
                                    args |-> <<fd, offset, (whence + 1) % 3, result>>] >>
                 /\ last.threw = "none"
                 /\ last.res = last.ch.res
            ELSE /\ last.made = <<>>
                 /\ last.threw = "Invalid whence"

\* A seek from the end (unstable whence 2) has reached the stable fd_seek, and an
\* earlier call preceded it.
C7_Witness ==
    /\ UnstableSeek
    /\ last.args[3] = 2
    /\ last.threw = "none"
    /\ last.n = 2

DistinctSeqs(S, n) == {q \in SeqsUpTo(S, n) : \A i, j \in 1..Len(q) : i # j => q[i] # q[j]}

RunFuncs ==
    << [name |-> "f", params |-> <<"i32">>, results |-> <<"i32">>],
       [name |-> "g", params |-> <<"i64">>, results |-> <<"i64">>] >>

RunModules ==
    { [imports |-> imps, funcs |-> RunFuncs,
       exports |-> [i \in 1..Len(names) |-> FuncExport(names[i], names[i])] \o <<MemoryExport>>] :
        imps \in SeqsUpTo(Namespaces, MaxImports), names \in DistinctSeqs({"f", "g"}, MaxExports) }

RunArgvs ==
    { [invoke |-> inv, given |-> inv, trace |-> tr, args |-> <<Str(<<"2", "1">>)>>] :
        inv \in {Undefined, Str("f"), Str("h")}, tr \in BOOLEAN }

InitRun ==
    \E m \in RunModules, a \in RunArgvs : Fresh(m, a, [i \in 1..MemSize |-> 1 + (i % 100)])

\* Module code queries the status of a descriptor through whatever table it was given.
CallImportRun ==
    \E ns \in DOMAIN imports, ch \in SeekChoices :
        ModuleCall(ns, "fd_filestat_get", <<3, 8>>, ch)

NextRun ==
    \/ Analyze
    \/ PrepareImports
    \/ Trace
    \/ Instantiate
    \/ StartFnReturns
    \/ Execute
    \/ CallImportRun
    \/ FuncReturns
    \/ StartExits

SpecRun == InitRun /\ [][NextRun]_vars

(***************************************************************************)
(* SpecCoerce: main at line 424, for a module without capability imports    *)
(* that exports one function f, over parameter lists and raw arguments.     *)
(***************************************************************************)
InitCoerce ==
    \E ps \in SeqsUpTo(ValueTypes, MaxParams), raw \in SeqsUpTo(RawStrings, MaxArgs),
       inv \in {Undefined, Str("f")} :
        /\ pc = "execute"
        /\ module = [imports |-> <<>>, funcs |-> <<[name |-> "f", params |-> ps, results |-> <<"i32">>]>>,
                     exports |-> <<FuncExport("f", "f"), MemoryExport>>]
        /\ argv = [invoke |-> inv, given |-> inv, trace |-> FALSE, args |-> raw]
        /\ wasmInfo = [wasiVersion |-> Undefined, exportedFuncs |-> <<"f">>]
        /\ imports = EmptyMap
        /\ wasi = "undefined"
        /\ ctx = [memory |-> "undefined"]
        /\ mem = [i \in 1..MemSize |-> 0]
        /\ last = NoCall
        /\ stable = <<>>
        /\ tracelog = <<>>
        /\ called = <<>>
        /\ parse = NoParse
        /\ status = Running

NextCoerce == Execute \/ FuncReturns

SpecCoerce == InitCoerce /\ [][NextCoerce]_vars

(***************************************************************************)
(* SpecParse: parseWasmInfo over modules of two functions and their exports.*)
(***************************************************************************)
MaxParseExports == 3

ParseFuncs ==
    << [name |-> "a", params |-> <<"i32">>, results |-> <<"i32">>],
       [name |-> "b", params |-> <<"i64", "f64">>, results |-> <<>>] >>

ParseExportEntries ==
    {FuncExport(n, v) : n \in {"a", "b", "c"}, v \in {"a", "b"}} \cup {MemoryExport}

\* Export names are unique in a valid module.
ParseModules ==
    { [imports |-> <<>>, funcs |-> ParseFuncs, exports |-> es] :
        es \in {q \in SeqsUpTo(ParseExportEntries, MaxParseExports) :
                   \A i, j \in 1..Len(q) : i # j => q[i].name # q[j].name} }

InitParse ==
    \E m \in ParseModules :
        /\ pc = "parse"
        /\ module = m
        /\ argv = [invoke |-> Undefined, given |-> Undefined, trace |-> FALSE, args |-> <<>>]
        /\ wasmInfo = [wasiVersion |-> Undefined, exportedFuncs |-> ExportedFuncs(m)]
        /\ imports = EmptyMap
        /\ wasi = "undefined"
        /\ ctx = [memory |-> "undefined"]
        /\ mem = [i \in 1..MemSize |-> 0]
        /\ last = NoCall
        /\ stable = <<>>
        /\ tracelog = <<>>
        /\ called = <<>>
        /\ parse = NoParse
        /\ status = Running

\* Line 434: wasmInfo2 = await parseWasmInfo(binary).
ParseStep ==
    /\ pc = "parse"
    /\ parse' = parseWasmInfo(module)
    /\ pc' = "halt"
    /\ UNCHANGED <<argv, wasmInfo, imports, wasi, ctx, callVars, called, module, status>>

NextParse == ParseStep

SpecParse == InitParse /\ [][NextParse]_vars

(***************************************************************************)
(* Properties of the run, under SpecRun.                                   *)
(***************************************************************************)
\* The run has gone through the selection of lines 424-453.
Executed ==
    \/ pc \in {"in_func", "in_start"}
    \/ pc = "halt" /\ status.at \in {"execute", "in_func", "in_start"}

\* Control has passed to wasi.start.
EnteredStart ==
    \/ pc = "in_start"
    \/ pc = "halt" /\ status.at = "in_start"

\* The exported function n, and no other, has been called.
Invoked(n) == Len(called) = 1 /\ called[1].name = n

WasiNamespaces == {ns \in Range(module.imports) : StartsWithWasi(ns)}

\* C3: a requested name that is not exported ends the run with "Function not found"
\* and no exported function is called; a requested name that is exported is invoked;
\* with no request, no capability namespace and exactly one exported function, that
\* function is invoked; in every other case control passes to the capability entry
\* point.
C3_BranchTaken ==
    Executed =>
        IF argv.given.t # "undefined"
        THEN IF argv.given.v \notin Range(ExportedFuncs(module))
             THEN /\ status.kind = "fatal"
                  /\ status.msg = "Function not found"
                  /\ called = <<>>
             ELSE Invoked(argv.given.v)
        ELSE IF WasiNamespaces = {} /\ Len(ExportedFuncs(module)) = 1
             THEN Invoked(ExportedFuncs(module)[1])
             ELSE EnteredStart /\ called = <<>>

\* C4: when some declared namespace begins with "wasi_" and is neither
\* wasi_snapshot_preview1 nor wasi_unstable, the run ends with "Unsupported WASI version"
\* before instantiation; otherwise the version is one of the declared namespaces and
\* the import table holds it.
C4_UnsupportedVersionFatal ==
    pc \notin {"analyze", "prepare"} =>
        IF \E ns \in WasiNamespaces : ns \notin {"wasi_snapshot_preview1", "wasi_unstable"}
        THEN /\ status.kind = "fatal"
             /\ status.msg = "Unsupported WASI version"
             /\ status.at = "prepare"
        ELSE WasiNamespaces # {} =>
                /\ wasmInfo.wasiVersion.t = "string"
                /\ wasmInfo.wasiVersion.v \in WasiNamespaces
                /\ wasmInfo.wasiVersion.v \in DOMAIN imports

\* C10: whenever fd_filestat_get or path_filestat_get of the wasi_unstable table has been
\* called, during instantiation, an invoked function or wasi.start, ctx.memory was set.
C10_MemorySetBeforeFilestat ==
    (last.fn \in FilestatFuncs /\ last.ns = "wasi_unstable") => ctx.memory = "Memory"

(***************************************************************************)
(* Properties of the argument coercion, under SpecCoerce.                  *)
(***************************************************************************)
CalledParams == module.funcs[1].params

\* C5: the exported function is called only with, in every parameter position, a
\* numeric value of the parameter's type (a number for i32, f32 and f64, a big integer
\* for i64), every parameter type being one of the four; never with an unparsed string
\* or a not-a-number value.
C5_CalledWithTypedValues ==
    called # <<>> =>
        \A i \in 1..Len(CalledParams) :
            /\ CalledParams[i] \in {"i32", "i64", "f32", "f64"}
            /\ called[1].args[i].t = IF CalledParams[i] = "i64" THEN "bigint" ELSE "number"

\* C6: when there are at least as many raw arguments as parameters, the argument list of
\* the call has exactly as many entries as the signature has parameters.
C6_ArgumentCountIsArity ==
    (called # <<>> /\ Len(argv.args) >= Len(CalledParams)) =>
        Len(called[1].args) = Len(CalledParams)

(***************************************************************************)
(* Properties of parseWasmInfo, under SpecParse.                           *)
(***************************************************************************)
FuncPosition(name) == CHOOSE k \in 1..Len(module.funcs) : module.funcs[k].name = name

\* C9: after analysis, for every export entry of kind function with public name n that
\* refers to function f, funcsByName[n] is the signature object of funcsByIndex at the
\* index of f.
C9_ExportAliasesItsFunction ==
    pc = "halt" =>
        \A i \in 1..Len(module.exports) :
            module.exports[i].kind = "function" =>
                parse.funcsByName[module.exports[i].name] = FuncPosition(module.exports[i].value)

====
